---- MODULE Spec2Model ----
(***************************************************************************)
(* dra: the download handler (src/cli/handlers/download/mod.rs) and the    *)
(* installer strategies it drives (src/installer/command.rs,               *)
(* compressed_file.rs, debian.rs), as one sequential state machine.        *)
(*                                                                         *)
(* download.rs is an earlier form of the same handler; the model follows    *)
(* download/mod.rs, which has the modes, the temporary file and the        *)
(* destination directory.                                                  *)
(*                                                                         *)
(* Strings are TLC strings: format! is \o, Path::display is the path text. *)
(* Options are records [some |-> FALSE] and [some |-> TRUE, val |-> x].    *)
(* Results are records [ok |-> TRUE, ...] and [ok |-> FALSE, ...].         *)
(***************************************************************************)
EXTENDS Integers, Sequences, FiniteSets, TLC

VARIABLES
    handler,        \* the DownloadHandler built by DownloadHandler::new
    pc,             \* position inside DownloadHandler::run
    release,        \* the Release returned by fetch_release
    selected_asset, \* the Asset returned by select_asset
    output_path,    \* the PathBuf returned by choose_output_path
    stream,         \* bytes the download stream has still to deliver
    total_bytes,    \* download_asset's total_bytes
    dirs,           \* the directories that exist
    fs,             \* the regular files: path -> [content, mode]
    destination_dir,\* maybe_install's destination_dir
    install_result, \* the InstallerResult of the strategy that ran
    proc,           \* what the spawned dpkg process did
    touched,        \* paths the installer strategy created or wrote
    events,         \* history: the steps run has performed, in order
    result          \* the HandlerResult returned by run

vars == <<handler, pc, release, selected_asset, output_path, stream,
          total_bytes, dirs, fs, destination_dir, install_result, proc, touched, events, result>>

----------------------------------------------------------------------------
(* Bounds of the model *)

\* most assets a fetched release carries
MaxAssets == 2
\* most bytes a download stream delivers
MaxStream == 2
\* most bytes a decoder yields
MaxPlain == 1

----------------------------------------------------------------------------
(* Options, results and strings *)

None == [some |-> FALSE]

Some(x) == [some |-> TRUE, val |-> x]

Ok == [ok |-> TRUE]

\* s[i..j] of a string
Sub(s, i, j) == SubSeq(s, i, j)

\* str::contains
Contains(s, sub) ==
    \E i \in 1..(Len(s) - Len(sub) + 1) : Sub(s, i, i + Len(sub) - 1) = sub

EndsWith(s, suffix) ==
    /\ Len(s) >= Len(suffix)
    /\ Sub(s, Len(s) - Len(suffix) + 1, Len(s)) = suffix

RECURSIVE Replace(_, _, _)
\* str::replace: every occurrence of pat, left to right
Replace(s, pat, by) ==
    IF Len(s) < Len(pat) THEN s
    ELSE IF Sub(s, 1, Len(pat)) = pat
         THEN by \o Replace(Sub(s, Len(pat) + 1, Len(s)), pat, by)
         ELSE Sub(s, 1, 1) \o Replace(Sub(s, 2, Len(s)), pat, by)

\* HandlerError::new(message)
HandlerError(message) == [ok |-> FALSE, msg |-> message]

\* InstallError::Fatal(message)
Fatal(message) == [ok |-> FALSE, kind |-> "Fatal", msg |-> message]

\* Result<T, io::Error>::map_fatal_err(message)
MapFatalErr(res, message) ==
    IF res.ok THEN res ELSE Fatal(message \o ": " \o res.err)

----------------------------------------------------------------------------
(* The environment: host, filesystem, server *)

\* std::env::consts::OS
HostOS == "linux"

\* std::env::consts::ARCH
HostArch == "x86_64"

\* std::env::temp_dir
TempDir == "/tmp"

\* std::env::current_dir, when it can be retrieved
Cwd == "/work"

\* sets of directories that may exist when the program starts
DirChoices == {{TempDir, Cwd}, {TempDir, Cwd, "out"}}

\* Path::join for a relative file name
Join(path, name) == path \o "/" \o name

\* the parent directory of dir/name paths
InDir(path, dir) ==
    /\ Len(path) > Len(dir) + 1
    /\ Sub(path, 1, Len(dir) + 1) = dir \o "/"

\* suffixes temp_file() may draw
TempNonces == {"7f3a"}

\* crate::cli::temp_file::temp_file
TempFile(nonce) == Join(TempDir, "dra-" \o nonce)

\* the bytes a stream of length n delivers: 1, 2, ..., n
Bytes(n) == [i \in 1..n |-> i]

Exists(f, path) == path \in DOMAIN f

\* the filesystem with no regular file
EmptyFs == [p \in {} |-> [content |-> <<>>, mode |-> 420]]

\* the file at path becomes file
PutFile(f, path, file) ==
    [p \in DOMAIN f \cup {path} |-> IF p = path THEN file ELSE f[p]]

\* std::fs::remove_file
RemoveFile(f, path) == [p \in DOMAIN f \ {path} |-> f[p]]

RepositoryName == [owner |-> "acme", repo |-> "t"]

\* impl Display for Repository
RepositoryDisplay(r) == r.owner \o "/" \o r.repo

Asset(name, url) == [name |-> name, download_url |-> url]

NoAsset == Asset("", "")

\* assets a release on the server may carry
AssetUniverse ==
    { Asset("t-v1-linux-amd64.gz", "u1"),
      Asset("t-v1-linux-amd64.gz", "u2"),
      Asset("t-v1.deb", "u3"),
      Asset("notes.txt", "u4") }

RECURSIVE SeqsUpTo(_, _)
SeqsUpTo(S, n) ==
    IF n = 0 THEN {<<>>}
    ELSE LET shorter == SeqsUpTo(S, n - 1)
         IN  shorter \cup {Append(s, x) : s \in {t \in shorter : Len(t) = n - 1}, x \in S}

\* releases the server may answer with: no asset is listed twice
Releases ==
    {[tag |-> "v1", assets |-> a] :
        a \in {s \in SeqsUpTo(AssetUniverse, MaxAssets) :
                    \A i, j \in 1..Len(s) : i # j => s[i] # s[j]}}

NoRelease == [tag |-> "", assets |-> <<>>]

\* names a user may pass to --select
UntaggedNames == {"t-{tag}-linux-amd64.gz", "t-{tag}.rpm"}

\* paths a user may pass to --output
OutputPaths == {"out", "nodir"}

\* names a user may pass to --install
ExecutableNames == {"tool"}

\* text of the io::Error an operating system call fails with
IoErrorText == "Permission denied (os error 13)"

IoErr == [ok |-> FALSE, err |-> IoErrorText]

----------------------------------------------------------------------------
(* DownloadHandler::new *)

\* DownloadMode::new
DownloadModeNew(select, automatic) ==
    IF select.some THEN [kind |-> "Selection", untagged |-> select.val]
    ELSE IF automatic THEN [kind |-> "Automatic"]
    ELSE [kind |-> "Interactive"]

\* Install::new
InstallNew(install, repository) ==
    IF install.some
    THEN [kind |-> "Yes",
          name |-> IF install.val.some THEN install.val.val ELSE repository.repo]
    ELSE [kind |-> "No"]

\* Install::as_bool
InstallAsBool(i) == i.kind = "Yes"

\* DownloadHandler::new
DownloadHandlerNew(repository, select, automatic, tag, output, install) ==
    LET install_new == InstallNew(install, repository)
    IN  [repository  |-> repository,
         mode        |-> DownloadModeNew(select, automatic),
         tag         |-> tag,
         output      |-> output,
         install     |-> InstallAsBool(install_new),
         install_new |-> install_new]

----------------------------------------------------------------------------
(* Selecting the asset *)

\* Iterator::find: the first of the positions where the predicate holds, or 0
FindFirst(positions) ==
    IF positions = {} THEN 0
    ELSE CHOOSE i \in positions : \A j \in positions : i <= j

\* what a find that keeps the last match would give
FindLast(positions) ==
    IF positions = {} THEN 0
    ELSE CHOOSE i \in positions : \A j \in positions : i >= j

\* TaggedAsset::tag
TaggedAssetTag(tag, untagged) == Replace(untagged, "{tag}", tag)

\* autoselect_asset keeping the last asset with the tagged name
AutoselectAssetLast(rel, untagged) ==
    LET asset_name == TaggedAssetTag(rel.tag, untagged)
        i == FindLast({k \in 1..Len(rel.assets) : rel.assets[k].name = asset_name})
    IN  IF i = 0
        THEN HandlerError("No asset found for " \o untagged)
        ELSE [ok |-> TRUE, val |-> rel.assets[i]]

\* DownloadHandler::autoselect_asset
AutoselectAsset(rel, untagged) ==
    LET asset_name == TaggedAssetTag(rel.tag, untagged)
        i == FindFirst({k \in 1..Len(rel.assets) : rel.assets[k].name = asset_name})
    IN  IF i = 0
        THEN HandlerError("No asset found for " \o untagged)
        ELSE [ok |-> TRUE, val |-> rel.assets[i]]

\* names an operating system goes by in asset names
OsAliases(os) ==
    IF os = "linux" THEN {"linux"}
    ELSE IF os = "macos" THEN {"macos", "darwin", "apple"}
    ELSE {os}

\* names an architecture goes by in asset names
ArchAliases(arch) ==
    IF arch = "x86_64" THEN {"x86_64", "amd64", "x64"}
    ELSE IF arch = "aarch64" THEN {"aarch64", "arm64"}
    ELSE {arch}

Alnum ==
    {"a", "b", "c", "d", "e", "f", "g", "h", "i", "j", "k", "l", "m", "n", "o",
     "p", "q", "r", "s", "t", "u", "v", "w", "x", "y", "z",
     "0", "1", "2", "3", "4", "5", "6", "7", "8", "9"}

\* does token occur in name between separators
HasToken(name, token) ==
    \E i \in 1..(Len(name) - Len(token) + 1) :
        /\ Sub(name, i, i + Len(token) - 1) = token
        /\ i > 1 => Sub(name, i - 1, i - 1) \notin Alnum
        /\ i + Len(token) <= Len(name) => Sub(name, i + Len(token), i + Len(token)) \notin Alnum

\* find_asset_by_system
FindAssetBySystem(os, arch, assets) ==
    LET Fits(x) == /\ \E o \in OsAliases(os) : HasToken(x.name, o)
                   /\ \E a \in ArchAliases(arch) : HasToken(x.name, a)
        i == FindFirst({k \in 1..Len(assets) : Fits(assets[k])})
    IN  IF i = 0 THEN None ELSE Some(assets[i])

\* urlencoding::encode of one character
EncodeChar(c) ==
    IF c \in Alnum \cup {"A", "B", "C", "E", "H", "O", "R", "S"} THEN c
    ELSE IF c \in {"-", "_", ".", "~"} THEN c
    ELSE IF c = " " THEN "%20"
    ELSE IF c = ":" THEN "%3A"
    ELSE IF c = "#" THEN "%23"
    ELSE IF c = "/" THEN "%2F"
    ELSE IF c = "\n" THEN "%0A"
    ELSE "%3F"

RECURSIVE UrlEncode(_)
\* urlencoding::encode
UrlEncode(s) ==
    IF Len(s) = 0 THEN s ELSE EncodeChar(Sub(s, 1, 1)) \o UrlEncode(Sub(s, 2, Len(s)))

\* env!("CARGO_PKG_VERSION")
CargoPkgVersion == "0.3.0"

\* automatic_download_error with a message that leaves the system out
AutomaticDownloadErrorNoSystem(repository, tag, os, arch) ==
    HandlerError("Cannot find asset that matches your system"
        \o "\nIf you think this is a bug, please report the issue: "
        \o "https://github.com/devmatteini/dra/issues/new")

\* DownloadHandler::automatic_download_error
AutomaticDownloadError(repository, tag, os, arch) ==
    LET title == UrlEncode("Error: automatic download of asset")
        body == UrlEncode("## dra version\n" \o CargoPkgVersion
                    \o "\n## Bug report\nRepository: " \o RepositoryDisplay(repository)
                    \o "\nRelease: " \o tag \o "\nOS: " \o os \o "\nARCH: " \o arch)
        issue_url == "https://github.com/devmatteini/dra/issues/new?title=" \o title
                        \o "&body=" \o body
    IN  HandlerError("Cannot find asset that matches your system " \o os \o " " \o arch
            \o "\nIf you think this is a bug, please report the issue: " \o issue_url)

\* select::ask_select_asset: the user picks assets[pick], or quits with pick = 0
AskSelectAsset(assets, pick) ==
    IF pick = 0 THEN HandlerError("No asset selected")
    ELSE [ok |-> TRUE, val |-> assets[pick]]

\* DownloadHandler::select_asset
SelectAssetOf(h, rel, pick) ==
    IF h.mode.kind = "Interactive" THEN AskSelectAsset(rel.assets, pick)
    ELSE IF h.mode.kind = "Selection" THEN AutoselectAsset(rel, h.mode.untagged)
    ELSE LET found == FindAssetBySystem(HostOS, HostArch, rel.assets)
         IN  IF found.some THEN [ok |-> TRUE, val |-> found.val]
             ELSE AutomaticDownloadError(h.repository, rel.tag, HostOS, HostArch)

----------------------------------------------------------------------------
(* Paths *)

\* choose_output_path_from saving an asset to install under its own name
ChooseOutputPathFromAssetName(output, install, asset_name, is_dir, nonce) ==
    IF install THEN asset_name
    ELSE IF output.some
         THEN IF output.val \in is_dir THEN Join(output.val, asset_name) ELSE output.val
         ELSE asset_name

\* choose_output_path_from; is_dir is the set of paths the predicate holds of,
\* nonce is what temp_file() draws
ChooseOutputPathFrom(output, install, asset_name, is_dir, nonce) ==
    IF install THEN TempFile(nonce)
    ELSE IF output.some
         THEN IF output.val \in is_dir THEN Join(output.val, asset_name) ELSE output.val
         ELSE asset_name

\* DownloadHandler::dir_or_error; is_dir is the set of paths Path::is_dir holds of
DirOrError(path, is_dir) ==
    IF path \in is_dir THEN [ok |-> TRUE, val |-> path]
    ELSE HandlerError(path \o " is not a directory")

\* DownloadHandler::output_dir_or_cwd; cwd is what std::env::current_dir returns
OutputDirOrCwd(h, is_dir, cwd) ==
    IF h.output.some THEN DirOrError(h.output.val, is_dir)
    ELSE IF cwd.ok THEN cwd
         ELSE HandlerError("Error retrieving current directory: " \o cwd.err)

----------------------------------------------------------------------------
(* ExternalCommandRunner: src/installer/command.rs *)

\* what Command::output may give for dpkg
ProcOutcomes ==
    { [spawned |-> FALSE, err |-> "No such file or directory (os error 2)"],
      [spawned |-> TRUE, exited |-> TRUE, code |-> 0, utf8 |-> TRUE, stderr |-> ""],
      [spawned |-> TRUE, exited |-> TRUE, code |-> 1, utf8 |-> TRUE, stderr |-> "dpkg: error"],
      [spawned |-> TRUE, exited |-> TRUE, code |-> 2, utf8 |-> FALSE, stderr |-> ""],
      [spawned |-> TRUE, exited |-> FALSE, code |-> 0, utf8 |-> TRUE, stderr |-> "killed"],
      [spawned |-> TRUE, exited |-> FALSE, code |-> 0, utf8 |-> FALSE, stderr |-> ""] }

NoProc == [spawned |-> FALSE, err |-> ""]

\* ExitStatus::success
StatusSuccess(output) == output.exited /\ output.code = 0

\* ExitStatus::code
StatusCode(output) == IF output.exited THEN Some(output.code) ELSE None

\* String::from_utf8(output.stderr)
FromUtf8(output) == IF output.utf8 THEN [ok |-> TRUE, val |-> output.stderr] ELSE [ok |-> FALSE]

\* handle_command_output taking a process that ended without a code for a success
HandleCommandOutputNoCodeIsSuccess(name, output) ==
    IF ~StatusCode(output).some \/ StatusCode(output).val = 0 THEN Ok
    ELSE Fatal("An error occurred while executing (status: "
            \o ToString(StatusCode(output).val)
            \o "):\n  "
            \o (IF FromUtf8(output).ok THEN FromUtf8(output).val
                ELSE "Unknown " \o name \o " error"))

\* handle_command_output
HandleCommandOutput(name, output) ==
    IF StatusSuccess(output) THEN Ok
    ELSE Fatal("An error occurred while executing (status: "
            \o (IF StatusCode(output).some THEN ToString(StatusCode(output).val) ELSE "NA")
            \o "):\n  "
            \o (IF FromUtf8(output).ok THEN FromUtf8(output).val
                ELSE "Unknown " \o name \o " error"))

\* exec_command; outcome is what Command::output gave
ExecCommand(name, outcome) ==
    LET spawned == IF outcome.spawned THEN [ok |-> TRUE, val |-> outcome]
                   ELSE [ok |-> FALSE, err |-> outcome.err]
        mapped == MapFatalErr(spawned, "An error occurred executing '" \o name \o "'")
    IN  IF mapped.ok THEN HandleCommandOutput(name, mapped.val) ELSE mapped

----------------------------------------------------------------------------
(* FormatClassifier and the installer strategies *)

\* installer::install's choice of strategy from the asset name
Classify(asset_name) ==
    IF EndsWith(asset_name, ".gz") THEN "Gzip"
    ELSE IF EndsWith(asset_name, ".xz") THEN "Xz"
    ELSE IF EndsWith(asset_name, ".bz2") THEN "Bzip2"
    ELSE IF EndsWith(asset_name, ".deb") THEN "DebianPackage"
    ELSE "Unsupported"

CompressedFormats == {"Gzip", "Xz", "Bzip2"}

\* installer::install's error for a file no strategy handles
UnsupportedError(asset_name) == Fatal(asset_name \o " is not supported")

\* InstallCleanup::cleanup: the files after the attempt to delete path, which
\* removed it or failed
InstallCleanup(f, path, removed) == IF removed THEN RemoveFile(f, path) ELSE f

\* debian.rs: const DPKG
DPKG == "dpkg"

\* File::create: a new empty file (mode 0o644), or the old one truncated
FileCreate(f, path) ==
    PutFile(f, path, [content |-> <<>>, mode |-> IF Exists(f, path) THEN f[path].mode ELSE 420])

\* Write::write of the first k bytes of buf to the file at path
FileWrite(f, path, buf, k) ==
    PutFile(f, path, [f[path] EXCEPT !.content = @ \o SubSeq(buf, 1, k)])

\* download_asset, line 210: the length of buffer
BufferLen == 1024

Min(a, b) == IF a < b THEN a ELSE b

\* bytes a decoder yields from a compressed file, when it yields n of them
Plain(n) == [i \in 1..n |-> 100 + i]

\* PermissionsExt::from_mode(0o755)
ExecutableMode == 493

\* the executable saved under the name of the asset
ExecutablePathOfAsset(h, dir) == Join(dir, selected_asset.name)

\* the executable's path: destination_dir.join(executable.name())
ExecutablePath(h, dir) == Join(dir, h.install_new.name)

----------------------------------------------------------------------------
(* The state machine *)

\* a file that may be in the output directory before the program starts
PreexistingPath == Join("out", "tool")

PreexistingFile == [content |-> <<9, 9>>, mode |-> 420]

Running == [state |-> "running"]

Returned(r) == [state |-> "returned", ok |-> r.ok, msg |-> IF r.ok THEN "" ELSE r.msg]

NoResult == [ok |-> FALSE, kind |-> "None", msg |-> ""]

Is_dir(path) == path \in dirs

Log(e) == events' = Append(events, e)

Init ==
    /\ \E select \in {None} \cup {Some(u) : u \in UntaggedNames},
          automatic \in BOOLEAN,
          output \in {None} \cup {Some(o) : o \in OutputPaths},
          install \in {None, Some(None)} \cup {Some(Some(e)) : e \in ExecutableNames} :
            handler = DownloadHandlerNew(RepositoryName, select, automatic, None, output, install)
    /\ dirs \in DirChoices
    /\ \/ fs = EmptyFs
       \/ /\ "out" \in dirs
          /\ fs = [p \in {PreexistingPath} |-> PreexistingFile]
    /\ pc = "fetch"
    /\ release = NoRelease
    /\ selected_asset = NoAsset
    /\ output_path = ""
    /\ stream = <<>>
    /\ total_bytes = 0
    /\ destination_dir = ""
    /\ install_result = NoResult
    /\ proc = NoProc
    /\ touched = {}
    /\ events = <<>>
    /\ result = Running

\* run returns r
Return(r) ==
    /\ pc' = "done"
    /\ result' = Returned(r)

\* run, line 92: fetch_release succeeds
FetchReleaseOk ==
    /\ pc = "fetch"
    /\ \E r \in Releases : release' = r
    /\ pc' = "select"
    /\ Log("fetch")
    /\ UNCHANGED <<handler, selected_asset, output_path, stream, total_bytes, dirs, fs,
                   destination_dir, install_result, proc, touched, result>>

\* run, line 92: fetch_release fails
FetchReleaseErr ==
    /\ pc = "fetch"
    /\ Return(HandlerError("Error fetching the release: " \o IoErrorText))
    /\ Log("fetch")
    /\ UNCHANGED <<handler, release, selected_asset, output_path, stream, total_bytes, dirs,
                   fs, destination_dir, install_result, proc, touched>>

\* run, lines 93-94: select_asset, then choose_output_path
SelectAsset ==
    /\ pc = "select"
    /\ \E pick \in 0..Len(release.assets), nonce \in TempNonces :
        /\ handler.mode.kind # "Interactive" => pick = 0
        /\ LET r == SelectAssetOf(handler, release, pick)
           IN  IF r.ok
               THEN /\ selected_asset' = r.val
                    /\ output_path' = ChooseOutputPathFrom(handler.output, handler.install,
                                                           r.val.name, dirs, nonce)
                    /\ pc' = "download"
                    /\ result' = result
               ELSE /\ Return(r)
                    /\ UNCHANGED <<selected_asset, output_path>>
    /\ release' = NoRelease
    /\ Log("select")
    /\ UNCHANGED <<handler, stream, total_bytes, dirs, fs, destination_dir, install_result,
                   proc, touched>>

\* download_asset, lines 204-205: the download stream opens
OpenStreamOk ==
    /\ pc = "download"
    /\ \E n \in 0..MaxStream : stream' = Bytes(n)
    /\ pc' = "create"
    /\ events' = events \o <<"download", "open_stream">>
    /\ UNCHANGED <<handler, release, selected_asset, output_path, total_bytes, dirs, fs,
                   destination_dir, install_result, proc, touched, result>>

\* download_asset, lines 204-205: download_asset_stream fails
OpenStreamErr ==
    /\ pc = "download"
    /\ Return(HandlerError("Error downloading asset: " \o IoErrorText))
    /\ events' = events \o <<"download", "open_stream_err">>
    /\ UNCHANGED <<handler, release, selected_asset, output_path, stream, total_bytes, dirs,
                   fs, destination_dir, install_result, proc, touched>>

\* download_asset, line 208: create_file succeeds, truncating what was there
CreateFileOk ==
    /\ pc = "create"
    /\ ~Is_dir(output_path)
    /\ fs' = FileCreate(fs, output_path)
    /\ total_bytes' = 0
    /\ pc' = "copy"
    /\ Log("create_file")
    /\ UNCHANGED <<handler, release, selected_asset, output_path, stream, dirs,
                   destination_dir, install_result, proc, touched, result>>

\* download_asset, line 208: create_file fails
CreateFileErr ==
    /\ pc = "create"
    /\ Return(HandlerError("Failed to create the file " \o output_path \o ": " \o IoErrorText))
    /\ Log("create_file_err")
    /\ UNCHANGED <<handler, release, selected_asset, output_path, stream, total_bytes, dirs,
                   fs, destination_dir, install_result, proc, touched>>

\* download_asset, lines 211-214, 223-224: read returns Ok(0), the loop breaks
ReadEof ==
    /\ pc = "copy"
    /\ stream = <<>>
    /\ pc' = "install"
    /\ Log("download_ok")
    /\ UNCHANGED <<handler, release, selected_asset, output_path, stream, total_bytes, dirs,
                   fs, destination_dir, install_result, proc, touched, result>>

\* download_asset, lines 211, 223-224: read returns Err, `while let Ok` ends the loop
ReadErr ==
    /\ pc = "copy"
    /\ pc' = "install"
    /\ events' = events \o <<"read_err", "download_ok">>
    /\ UNCHANGED <<handler, release, selected_asset, output_path, stream, total_bytes, dirs,
                   fs, destination_dir, install_result, proc, touched, result>>

\* download_asset, lines 211-221: read fills n bytes, write accepts k of them
CopyChunk ==
    /\ pc = "copy"
    /\ \E n \in 1..Min(BufferLen, Len(stream)), k \in 0..Min(BufferLen, Len(stream)) :
        /\ k <= n
        /\ fs' = FileWrite(fs, output_path, stream, k)
        /\ stream' = SubSeq(stream, n + 1, Len(stream))
        /\ total_bytes' = total_bytes + n
    /\ events' = IF \E i \in 1..Len(events) : events[i] = "write"
                 THEN events ELSE Append(events, "write")
    /\ UNCHANGED <<handler, pc, release, selected_asset, output_path, dirs,
                   destination_dir, install_result, proc, touched, result>>

\* download_asset, lines 216-218: read fills n bytes, write fails
WriteErr ==
    /\ pc = "copy"
    /\ \E n \in 1..Min(BufferLen, Len(stream)) : stream' = SubSeq(stream, n + 1, Len(stream))
    /\ Return(HandlerError("Error saving " \o selected_asset.name \o " to " \o output_path
                            \o ": " \o IoErrorText))
    /\ Log("write_err")
    /\ UNCHANGED <<handler, release, selected_asset, output_path, total_bytes, dirs, fs,
                   destination_dir, install_result, proc, touched>>

\* maybe_install, line 142: Install::No
MaybeInstallNo ==
    /\ pc = "install"
    /\ handler.install_new.kind = "No"
    /\ Return(Ok)
    /\ UNCHANGED <<handler, release, selected_asset, output_path, stream, total_bytes, dirs,
                   fs, destination_dir, install_result, proc, touched, events>>

\* maybe_install, line 144: output_dir_or_cwd()?
ResolveDestination ==
    /\ pc = "install"
    /\ handler.install_new.kind = "Yes"
    /\ \E cwd \in {[ok |-> TRUE, val |-> Cwd], IoErr} :
        /\ handler.output.some => cwd.ok
        /\ LET r == OutputDirOrCwd(handler, dirs, cwd)
           IN  IF r.ok
               THEN /\ destination_dir' = r.val
                    /\ pc' = "dispatch"
                    /\ result' = result
               ELSE /\ Return(r)
                    /\ destination_dir' = destination_dir
    /\ UNCHANGED <<handler, release, selected_asset, output_path, stream, total_bytes, dirs,
                   fs, install_result, proc, touched, events>>

\* maybe_install, lines 148-153: installer::install picks the strategy
InstallDispatch ==
    /\ pc = "dispatch"
    /\ LET format == Classify(selected_asset.name)
       IN  IF format \in CompressedFormats
           THEN pc' = "dm_open" /\ install_result' = install_result
           ELSE IF format = "DebianPackage"
           THEN pc' = "dpkg" /\ install_result' = install_result
           ELSE /\ pc' = "cleanup"
                /\ install_result' = UnsupportedError(selected_asset.name)
    /\ Log("install")
    /\ UNCHANGED <<handler, release, selected_asset, output_path, stream, total_bytes, dirs,
                   fs, destination_dir, proc, touched, result>>

\* a strategy step fails: the strategy returns the error
StrategyFails(error, event) ==
    /\ install_result' = error
    /\ pc' = "cleanup"
    /\ Log(event)

\* decompress_and_move, lines 64-65: File::open(&file_info.path)
DmOpenOk ==
    /\ pc = "dm_open"
    /\ Exists(fs, output_path)
    /\ pc' = "dm_create"
    /\ Log("dm_open")
    /\ UNCHANGED <<handler, release, selected_asset, output_path, stream, total_bytes, dirs,
                   fs, destination_dir, install_result, proc, touched, result>>

\* decompress_and_move creating the destination file before the open fails
DmOpenErrAfterCreate ==
    /\ pc = "dm_open"
    /\ fs' = FileCreate(fs, ExecutablePath(handler, destination_dir))
    /\ touched' = touched \cup {ExecutablePath(handler, destination_dir)}
    /\ StrategyFails(MapFatalErr(IoErr, "Error opening " \o output_path), "dm_open_err")
    /\ UNCHANGED <<handler, release, selected_asset, output_path, stream, total_bytes, dirs,
                   destination_dir, proc, result>>

\* decompress_and_move, lines 64-65: File::open(&file_info.path) fails
DmOpenErr ==
    /\ pc = "dm_open"
    /\ StrategyFails(MapFatalErr(IoErr, "Error opening " \o output_path), "dm_open_err")
    /\ UNCHANGED <<handler, release, selected_asset, output_path, stream, total_bytes, dirs,
                   fs, destination_dir, proc, touched, result>>

\* decompress_and_move, lines 69-71: File::create(&executable_path)
DmCreateOk ==
    /\ pc = "dm_create"
    /\ fs' = FileCreate(fs, ExecutablePath(handler, destination_dir))
    /\ touched' = touched \cup {ExecutablePath(handler, destination_dir)}
    /\ pc' = "dm_copy"
    /\ Log("dm_create")
    /\ UNCHANGED <<handler, release, selected_asset, output_path, stream, total_bytes, dirs,
                   destination_dir, install_result, proc, result>>

\* decompress_and_move, lines 69-71: File::create(&executable_path) fails
DmCreateErr ==
    /\ pc = "dm_create"
    /\ StrategyFails(MapFatalErr(IoErr, "Error creating "
                        \o ExecutablePath(handler, destination_dir)), "dm_create_err")
    /\ UNCHANGED <<handler, release, selected_asset, output_path, stream, total_bytes, dirs,
                   fs, destination_dir, proc, touched, result>>

\* decompress_and_move, lines 73-74: std::io::copy of the decoded stream
DmCopyOk ==
    /\ pc = "dm_copy"
    /\ \E n \in 0..MaxPlain :
        fs' = FileWrite(fs, ExecutablePath(handler, destination_dir), Plain(n), n)
    /\ pc' = "dm_perm"
    /\ Log("dm_copy")
    /\ UNCHANGED <<handler, release, selected_asset, output_path, stream, total_bytes, dirs,
                   destination_dir, install_result, proc, touched, result>>

\* std::io::copy fails after writing some of the decoded bytes
DmCopyErr ==
    /\ pc = "dm_copy"
    /\ \E n \in 0..MaxPlain :
        fs' = FileWrite(fs, ExecutablePath(handler, destination_dir), Plain(n), n)
    /\ StrategyFails(MapFatalErr(IoErr, "Error saving "
                        \o ExecutablePath(handler, destination_dir)), "dm_copy_err")
    /\ UNCHANGED <<handler, release, selected_asset, output_path, stream, total_bytes, dirs,
                   destination_dir, proc, touched, result>>

\* set_executable_permissions (unix), then decompress_and_move returns Ok
DmPermOk ==
    /\ pc = "dm_perm"
    /\ LET path == ExecutablePath(handler, destination_dir)
       IN  fs' = PutFile(fs, path, [fs[path] EXCEPT !.mode = ExecutableMode])
    /\ install_result' = Ok
    /\ pc' = "cleanup"
    /\ Log("dm_perm")
    /\ UNCHANGED <<handler, release, selected_asset, output_path, stream, total_bytes, dirs,
                   destination_dir, proc, touched, result>>

\* set_executable_permissions (unix) fails
DmPermErr ==
    /\ pc = "dm_perm"
    /\ StrategyFails(MapFatalErr(IoErr, "Cannot set executable permissions on "
                        \o ExecutablePath(handler, destination_dir)), "dm_perm_err")
    /\ UNCHANGED <<handler, release, selected_asset, output_path, stream, total_bytes, dirs,
                   fs, destination_dir, proc, touched, result>>

\* DebianInstaller::run: exec_command(DPKG, dpkg --install <path>)
DebianInstallerRun ==
    /\ pc = "dpkg"
    /\ \E outcome \in ProcOutcomes :
        /\ proc' = outcome
        /\ install_result' = ExecCommand(DPKG, outcome)
    /\ pc' = "cleanup"
    /\ Log("dpkg")
    /\ UNCHANGED <<handler, release, selected_asset, output_path, stream, total_bytes, dirs,
                   fs, destination_dir, touched, result>>

\* maybe_install, lines 154-158: .cleanup(path), then map_err(...)?
Cleanup ==
    /\ pc = "cleanup"
    /\ \E removed \in BOOLEAN : fs' = InstallCleanup(fs, output_path, removed)
    /\ Return(IF install_result.ok THEN Ok ELSE HandlerError(install_result.msg))
    /\ Log("cleanup")
    /\ UNCHANGED <<handler, release, selected_asset, output_path, stream, total_bytes, dirs,
                   destination_dir, install_result, proc, touched>>

Next ==
    \/ FetchReleaseOk
    \/ FetchReleaseErr
    \/ SelectAsset
    \/ OpenStreamOk
    \/ OpenStreamErr
    \/ CreateFileOk
    \/ CreateFileErr
    \/ ReadEof
    \/ ReadErr
    \/ CopyChunk
    \/ WriteErr
    \/ MaybeInstallNo
    \/ ResolveDestination
    \/ InstallDispatch
    \/ DmOpenOk
    \/ DmOpenErr
    \/ DmCreateOk
    \/ DmCreateErr
    \/ DmCopyOk
    \/ DmCopyErr
    \/ DmPermOk
    \/ DmPermErr
    \/ DebianInstallerRun
    \/ Cleanup

Spec == Init /\ [][Next]_vars

----------------------------------------------------------------------------
(* What the history shows *)

HasEvent(e) == \E i \in 1..Len(events) : events[i] = e

Count(e) == Cardinality({i \in 1..Len(events) : events[i] = e})

IsPrefix(s, t) == Len(s) <= Len(t) /\ SubSeq(t, 1, Len(s)) = s

RunReturned == pc = "done" /\ result.state = "returned"

RunFailedWith(message) == RunReturned /\ ~result.ok /\ result.msg = message

\* a download stream was opened, or a file was created or written
DownloadAttempted ==
    \/ HasEvent("open_stream")
    \/ HasEvent("open_stream_err")
    \/ HasEvent("create_file")
    \/ HasEvent("write")

\* some step of download_asset failed
DownloadFailed ==
    \/ HasEvent("open_stream_err")
    \/ HasEvent("create_file_err")
    \/ HasEvent("read_err")
    \/ HasEvent("write_err")

IsPipelineStep(e) == e \in {"fetch", "select", "download", "install", "cleanup"}

PipelineOrder == <<"fetch", "select", "download", "install", "cleanup">>

----------------------------------------------------------------------------
(* Claims *)

\* C1: with installation requested and an output path that is not an existing
\* directory, whenever run has returned "<path> is not a directory" no download
\* stream was opened and no file was created or written before it.
C1_NotADirectoryBeforeDownload ==
    (/\ handler.install
     /\ handler.output.some
     /\ ~Is_dir(handler.output.val)
     /\ RunFailedWith(handler.output.val \o " is not a directory"))
        => ~DownloadAttempted

\* C2: in every run with installation requested in which download_asset has put
\* the asset on disk, cleanup of the downloaded artifact has been attempted
\* exactly once when run returns, whatever the install step did.
C2_CleanupExactlyOnce ==
    (RunReturned /\ handler.install /\ HasEvent("download_ok")) => Count("cleanup") = 1

\* C6: every failure during download_asset is surfaced as an error of
\* download_asset and of run: after a failed step the download never counts as
\* done, the install step is never started, and run returns an error.
C6_DownloadFailureSurfaced ==
    DownloadFailed =>
        /\ ~HasEvent("download_ok")
        /\ ~HasEvent("install")
        /\ pc = "done"
        /\ ~result.ok

\* C8: the steps fetch, select, download, install, cleanup happen in that order,
\* each at most once, and download and install start only if every earlier step
\* succeeded.
C8_StrictPipeline ==
    /\ IsPrefix(SelectSeq(events, IsPipelineStep), PipelineOrder)
    /\ HasEvent("download") => selected_asset # NoAsset
    /\ HasEvent("install") => ~DownloadFailed

\* the tagged name selection mode looks for in the fetched release
WantedName == Replace(handler.mode.untagged, "{tag}", release.tag)

\* positions of the release's assets that carry the wanted name
Matching == {i \in 1..Len(release.assets) : release.assets[i].name = WantedName}

\* a step of run in which autoselect_asset is called
SelectionStep == pc = "select" /\ handler.mode.kind = "Selection" /\ pc' # "select"

NoAssetFound == Returned(HandlerError("No asset found for " \o handler.mode.untagged))

\* C3 (as claimed): whenever an installer strategy has returned success, the
\* run has created exactly one file, destination/<executable_name>.
C3_ExactlyOneFileCreated ==
    install_result.ok =>
        /\ touched = {Join(destination_dir, handler.install_new.name)}
        /\ Exists(fs, Join(destination_dir, handler.install_new.name))

\* C3 (amended): whenever gz/xz/bz2 has returned success, the only path the
\* installer created or wrote is destination/<executable_name>, which exists
\* with mode 0o755, and every other file of the destination is as it was;
\* whenever DebianInstaller::run has returned success, it has itself created or
\* written no file in the destination.
C3_CompressedCreatesOnlyExecutable ==
    install_result.ok =>
        LET exe == Join(destination_dir, handler.install_new.name)
        IN  /\ \A p \in DOMAIN fs :
                (InDir(p, destination_dir) /\ p # exe)
                    => (p = PreexistingPath /\ fs[p] = PreexistingFile)
            /\ IF Classify(selected_asset.name) \in CompressedFormats
               THEN /\ touched = {exe}
                    /\ Exists(fs, exe)
                    /\ fs[exe].mode = ExecutableMode
               ELSE /\ Classify(selected_asset.name) = "DebianPackage"
                    /\ touched = {}
                    /\ Exists(fs, exe) => (exe = PreexistingPath /\ fs[exe] = PreexistingFile)

\* a compressed asset was installed as out/t beside the file out/tool
C3_Witness ==
    /\ RunReturned
    /\ result.ok
    /\ Classify(selected_asset.name) \in CompressedFormats
    /\ Exists(fs, Join("out", "t"))
    /\ Exists(fs, PreexistingPath)

\* C4: exec_command returns Ok exactly when the process was spawned and exited
\* with success; every error is Fatal; a spawn failure carries the OS error; a
\* non-success exit carries the exit code, or "NA" without a code, and the
\* captured stderr, or an unknown-error text when stderr is not UTF-8.
C4_ExecCommandResult ==
    HasEvent("dpkg") =>
        /\ install_result.ok <=> (proc.spawned /\ proc.exited /\ proc.code = 0)
        /\ ~install_result.ok => install_result.kind = "Fatal"
        /\ ~proc.spawned => Contains(install_result.msg, proc.err)
        /\ (proc.spawned /\ ~install_result.ok) =>
            /\ Contains(install_result.msg,
                        "(status: " \o (IF proc.exited THEN ToString(proc.code) ELSE "NA") \o ")")
            /\ Contains(install_result.msg,
                        IF proc.utf8 THEN proc.stderr ELSE "Unknown dpkg error")

\* dpkg was killed by a signal and left stderr that is not UTF-8
C4_Witness ==
    /\ HasEvent("dpkg")
    /\ proc.spawned
    /\ ~proc.exited
    /\ ~proc.utf8
    /\ install_result.msg = "An error occurred while executing (status: NA):\n  Unknown dpkg error"

C7_ChooseOutputPath ==
    selected_asset # NoAsset =>
        IF handler.install
        THEN /\ Contains(output_path, "dra-")
             /\ ~Contains(output_path, selected_asset.name)
             /\ handler.output.some => ~Contains(output_path, handler.output.val)
        ELSE IF ~handler.output.some THEN output_path = selected_asset.name
        ELSE IF handler.output.val \in dirs
             THEN output_path = handler.output.val \o "/" \o selected_asset.name
             ELSE output_path = handler.output.val

\* without install, the output directory out was joined with the asset name
C7_Witness ==
    /\ pc = "download"
    /\ ~handler.install
    /\ handler.output = Some("out")
    /\ "out" \in dirs
    /\ output_path = "out/notes.txt"

\* run has returned from select_asset's error in a mode that selects by itself
NoAssetEnd ==
    /\ RunReturned
    /\ events = <<"fetch", "select">>
    /\ handler.mode.kind \in {"Selection", "Automatic"}

\* C9 (as claimed): both no-asset conditions end the run before any download
\* with an error that includes the OS and the architecture.
C9_NoAssetErrorNamesSystem ==
    NoAssetEnd =>
        /\ ~result.ok
        /\ ~DownloadAttempted
        /\ Contains(result.msg, HostOS)
        /\ Contains(result.msg, HostArch)

\* C9 (amended): both no-asset conditions end the run before any download with
\* an error; automatic mode's error includes the OS and the architecture,
\* selection mode's error is "No asset found for <untagged name>".
C9_NoAssetErrorPerMode ==
    NoAssetEnd =>
        /\ ~result.ok
        /\ ~DownloadAttempted
        /\ IF handler.mode.kind = "Automatic"
           THEN /\ Contains(result.msg, "system " \o HostOS \o " " \o HostArch)
                /\ Contains(result.msg, "OS%3A%20" \o HostOS)
                /\ Contains(result.msg, "ARCH%3A%20" \o HostArch)
           ELSE result.msg = "No asset found for " \o handler.mode.untagged

\* automatic mode found no asset for linux x86_64 and the run ended
C9_Witness ==
    /\ NoAssetEnd
    /\ handler.mode.kind = "Automatic"
    /\ Contains(result.msg, "Cannot find asset that matches your system linux x86_64")

IsDmEvent(e) ==
    e \in {"dm_open", "dm_open_err", "dm_create", "dm_create_err",
           "dm_copy", "dm_copy_err", "dm_perm", "dm_perm_err"}

\* the step sequences decompress_and_move may go through
DmRuns ==
    { <<"dm_open", "dm_create", "dm_copy", "dm_perm">>,
      <<"dm_open_err">>,
      <<"dm_open", "dm_create_err">>,
      <<"dm_open", "dm_create", "dm_copy_err">>,
      <<"dm_open", "dm_create", "dm_copy", "dm_perm_err">> }

\* the file at path is as it was before the program started
Untouched(path) ==
    IF Exists(fs, path) THEN path = PreexistingPath /\ fs[path] = PreexistingFile
    ELSE TRUE

\* C10: decompress_and_move opens the compressed file, creates the destination
\* file, copies, then sets mode 0o755; at the first failing step it returns a
\* Fatal error and performs no later step; when the open fails the destination
\* file is neither created nor truncated; the mode is set only after the copy
\* has completed.
C10_DecompressAndMoveOrder ==
    LET exe == Join(destination_dir, handler.install_new.name)
        FailedStep == \E e \in {"dm_open_err", "dm_create_err", "dm_copy_err", "dm_perm_err"} :
                        HasEvent(e)
    IN  /\ \E r \in DmRuns : IsPrefix(SelectSeq(events, IsDmEvent), r)
        /\ FailedStep =>
            (~install_result.ok /\ install_result.kind = "Fatal" /\ pc \in {"cleanup", "done"})
        /\ (handler.install /\ (HasEvent("dm_open_err") \/ ~HasEvent("dm_create"))) =>
            (touched = {} /\ Untouched(exe))
        /\ (handler.install /\ Exists(fs, exe) /\ fs[exe].mode = ExecutableMode) =>
            (HasEvent("dm_copy") /\ HasEvent("dm_perm"))

\* the open failed while out/tool was there: the file is still as it was
C10_Witness ==
    /\ HasEvent("dm_open_err")
    /\ handler.install_new.kind = "Yes"
    /\ handler.install_new.name = "tool"
    /\ destination_dir = "out"
    /\ Exists(fs, PreexistingPath)
    /\ fs[PreexistingPath] = PreexistingFile


\* download_asset has just returned Ok and no read of the stream failed
DownloadReturnedOk == pc = "install" /\ HasEvent("download_ok") /\ ~HasEvent("read_err")

\* C11: whenever download_asset returns Ok, the file at output_path holds
\* exactly the bytes the download stream delivered, complete and in order, and
\* the byte count reported to the progress bar is the number of bytes written
\* to the file, for every chunk size read returns and every number of bytes
\* each write call accepts.
C11_FileHoldsDeliveredBytes ==
    DownloadReturnedOk =>
        /\ stream = <<>>
        /\ fs[output_path].content = Bytes(total_bytes)
        /\ total_bytes = Len(fs[output_path].content)

====
